---------------------------- MODULE Spec2Model ----------------------------
(***************************************************************************)
(* A model of the `interpolation` crate: the 30 easing functions and their *)
(* dispatch (src/src/ease.rs), Lerp for floats, integers and arrays, with  *)
(* the loops of its tests (src/src/lerp.rs), the Bezier curves             *)
(* (src/src/lib.rs) and the Spatial arithmetic (src/src/spatial.rs).       *)
(*                                                                         *)
(* Every operation of the crate is a pure function, so a behaviour is one  *)
(* call: Init draws the function and its arguments, and the function's     *)
(* action applies it and stores the result.                                *)
(*                                                                         *)
(* Numbers.  A scalar is a rational <<n, d>> in lowest terms with d > 0;   *)
(* <<0, 0>> is NaN.  The easing functions are generic over T: Float and    *)
(* are modelled over the rationals, with exact +, -, *, /.  The std        *)
(* functions they call are modelled by rational functions that are exact   *)
(* wherever the true value is rational at the arguments the code passes:   *)
(*   sin   exact at the multiples of PI/6 and PI/2, Bhaskara's rational    *)
(*         approximation in between;                                       *)
(*   powf  exact at integer exponents, linear between them;                *)
(*   sqrt  exact on squares of rationals, rounded down to 1/SqrtScale      *)
(*         elsewhere, NaN below zero.                                      *)
(* Angles are carried in units of PI_2 (PI_2 is 1, PI is 2).               *)
(* The f32 and f64 scalars of Lerp and Spatial are rounded to their 24 and *)
(* 53 bit significands (see RoundFloat below).                             *)
(***************************************************************************)
EXTENDS Integers, Sequences, FiniteSets, TLC

VARIABLES pc, fn, args, res

vars == <<pc, fn, args, res>>

---------------------------------------------------------------------------
(* Bounds of the model.                                                    *)

\* The easing inputs are the multiples of 1/(2*HalfDen), so that the branch
\* point 0.5 of the *_in_out functions is always one of them.
HalfDen == 4

\* How many grid steps below 0 and above 1 the easing inputs reach.
Outside == 4

---------------------------------------------------------------------------
(* Rational arithmetic.                                                    *)

RECURSIVE Gcd(_, _)
Gcd(a, b) == IF b = 0 THEN a ELSE Gcd(b, a % b)

Abs(n) == IF n < 0 THEN -n ELSE n

NaN == <<0, 0>>

IsNaN(a) == a[2] = 0

\* n/d in lowest terms, d # 0.
Rat(n, d) ==
    LET g == Gcd(Abs(n), Abs(d))
        s == IF d < 0 THEN -1 ELSE 1
    IN  <<s * (n \div g), s * (d \div g)>>

RInt(n) == <<n, 1>>

RNeg(a) == <<-a[1], a[2]>>

RAdd(a, b) ==
    IF IsNaN(a) \/ IsNaN(b) THEN NaN
    ELSE LET g == Gcd(a[2], b[2])
         IN  Rat(a[1] * (b[2] \div g) + b[1] * (a[2] \div g), (a[2] \div g) * b[2])

RSub(a, b) == RAdd(a, RNeg(b))

RMul(a, b) ==
    IF IsNaN(a) \/ IsNaN(b) THEN NaN
    ELSE LET g1 == Gcd(Abs(a[1]), b[2])
             g2 == Gcd(Abs(b[1]), a[2])
         IN  <<(a[1] \div g1) * (b[1] \div g2), (a[2] \div g2) * (b[2] \div g1)>>

\* Division by zero gives NaN (the code never divides by zero: C13).
RDiv(a, b) ==
    IF IsNaN(a) \/ IsNaN(b) \/ b[1] = 0 THEN NaN
    ELSE RMul(a, IF b[1] < 0 THEN <<-b[2], -b[1]>> ELSE <<b[2], b[1]>>)

\* Comparisons with NaN are false, as in IEEE 754.
RLt(a, b) == ~IsNaN(a) /\ ~IsNaN(b) /\ RSub(a, b)[1] < 0

RLe(a, b) == ~IsNaN(a) /\ ~IsNaN(b) /\ RSub(a, b)[1] <= 0

RGt(a, b) == RLt(b, a)

REq(a, b) == ~IsNaN(a) /\ ~IsNaN(b) /\ a = b

a ++ b == RAdd(a, b)
a -- b == RSub(a, b)
a ** b == RMul(a, b)
a // b == RDiv(a, b)

\* The largest integer <= a.
RFloor(a) == a[1] \div a[2]

Half == Rat(1, 2)

---------------------------------------------------------------------------
(* The std functions the easing functions call.                            *)

\* Precision of sqrt at arguments whose root is irrational.
SqrtScale == 1024

RECURSIVE IPow(_, _)
IPow(b, n) == IF n = 0 THEN RInt(1) ELSE b ** IPow(b, n - 1)

\* b.powf(y): exact for integer y, linear between consecutive integers.
Powf(b, y) ==
    IF IsNaN(b) \/ IsNaN(y) THEN NaN
    ELSE LET n == RFloor(y)
             f == y -- RInt(n)
             w == IF n >= 0 THEN IPow(b, n) ELSE RInt(1) // IPow(b, -n)
         IN  w ** (RInt(1) ++ (f ** (b -- RInt(1))))

\* Bhaskara's approximation of sin(u * PI) for 0 <= u <= 1; it is exact at
\* u = 0, 1/6, 1/2, 5/6 and 1.
Bhaskara(u) ==
    LET v == u ** (RInt(1) -- u)
    IN  (RInt(16) ** v) // (RInt(5) -- (RInt(4) ** v))

\* x.sin() for an angle of x * PI_2.
Sin(x) ==
    IF IsNaN(x) THEN NaN
    ELSE LET r == x -- RInt(4 * RFloor(x // RInt(4)))
             u == r // RInt(2)
         IN  IF RLe(u, RInt(1)) THEN Bhaskara(u) ELSE RNeg(Bhaskara(u -- RInt(1)))

\* x.cos() for an angle of x * PI_2.
Cos(x) == Sin(x ++ RInt(1))

RECURSIVE ISqrtIter(_, _)
ISqrtIter(n, x) ==
    LET y == (x + (n \div x)) \div 2
    IN  IF y >= x THEN x ELSE ISqrtIter(n, y)

\* The largest integer r with r * r <= n.
ISqrt(n) == IF n = 0 THEN 0 ELSE ISqrtIter(n, n)

IsSquare(n) == ISqrt(n) * ISqrt(n) = n

\* a.sqrt(): NaN below zero, exact on squares of rationals.
Sqrt(a) ==
    IF IsNaN(a) \/ a[1] < 0 THEN NaN
    ELSE IF IsSquare(a[1]) /\ IsSquare(a[2]) THEN <<ISqrt(a[1]), ISqrt(a[2])>>
    ELSE Rat(ISqrt((a[1] * SqrtScale * SqrtScale) \div a[2]), SqrtScale)

\* std::f64::consts::PI_2 and PI, in units of PI_2.
PI_2 == RInt(1)

PI == RInt(2)

---------------------------------------------------------------------------
(* src/src/ease.rs: the easing functions.  A constant _k of the code is ck *)
(* here.                                                                   *)

\* normalized with the test against _1 left out.
normalized_no_upper(p) ==
    LET c0 == RInt(0)
    IN  IF RLt(p, c0) THEN c0 ELSE p

normalized(p) ==
    LET c1 == RInt(1)
        c0 == RInt(0)
    IN  IF RGt(p, c1) THEN c1
        ELSE IF RLt(p, c0) THEN c0
        ELSE p

quadratic_in(p0) ==
    LET p == normalized(p0)
    IN  p ** p

quadratic_out(p0) ==
    LET p == normalized(p0)
        c2 == RInt(2)
    IN  RNeg(p ** (p -- c2))

\* The two arms of quadratic_in_out's `if p < _05` (lines 183 and 185).
quadratic_in_out_lower(p) ==
    LET c2 == RInt(2)
    IN  p ** p ** c2

quadratic_in_out_upper(p) ==
    LET c2 == RInt(2)
        c4 == RInt(4)
        c1 == RInt(1)
    IN  ((RNeg(c2) ** p ** p) ++ (c4 ** p)) -- c1

quadratic_in_out(p0) ==
    LET p == normalized(p0)
        c05 == Rat(1, 2)
    IN  IF RLt(p, c05) THEN quadratic_in_out_lower(p)
        ELSE quadratic_in_out_upper(p)

cubic_in(p0) ==
    LET p == normalized(p0)
    IN  p ** p ** p

\* cubic_out with f * f for f * f * f.
cubic_out_square(p0) ==
    LET p == normalized(p0)
        c1 == RInt(1)
        f == p -- c1
    IN  (f ** f) ++ c1

cubic_out(p0) ==
    LET p == normalized(p0)
        c1 == RInt(1)
        f == p -- c1
    IN  (f ** f ** f) ++ c1

cubic_in_out_lower(p) ==
    LET c4 == RInt(4)
    IN  p ** p ** p ** c4

cubic_in_out_upper(p) ==
    LET c05 == Rat(1, 2)
        c2 == RInt(2)
        c1 == RInt(1)
        f == (c2 ** p) -- c2
    IN  (f ** f ** f ** c05) ++ c1

cubic_in_out(p0) ==
    LET p == normalized(p0)
        c05 == Rat(1, 2)
    IN  IF RLt(p, c05) THEN cubic_in_out_lower(p)
        ELSE cubic_in_out_upper(p)

quartic_in(p0) ==
    LET p == normalized(p0)
    IN  p ** p ** p ** p

\* quartic_out with the last factor written (p - 1) instead of (1 - p).
quartic_out_sign(p0) ==
    LET p == normalized(p0)
        c1 == RInt(1)
        f == p -- c1
    IN  (f ** f ** f ** (p -- c1)) ++ c1

quartic_out(p0) ==
    LET p == normalized(p0)
        c1 == RInt(1)
        f == p -- c1
    IN  (f ** f ** f ** (c1 -- p)) ++ c1

quartic_in_out_lower(p) ==
    LET c8 == RInt(8)
    IN  c8 ** p ** p ** p ** p

quartic_in_out_upper(p) ==
    LET c8 == RInt(8)
        c1 == RInt(1)
        f == p -- c1
    IN  (RNeg(c8) ** f ** f ** f ** f) ++ c1

quartic_in_out(p0) ==
    LET p == normalized(p0)
        c05 == Rat(1, 2)
    IN  IF RLt(p, c05) THEN quartic_in_out_lower(p)
        ELSE quartic_in_out_upper(p)

quintic_in(p0) ==
    LET p == normalized(p0)
    IN  p ** p ** p ** p ** p

quintic_out(p0) ==
    LET p == normalized(p0)
        c1 == RInt(1)
        f == p -- c1
    IN  (f ** f ** f ** f ** f) ++ c1

quintic_in_out_lower(p) ==
    LET c16 == RInt(16)
    IN  p ** p ** p ** p ** p ** c16

quintic_in_out_upper(p) ==
    LET c05 == Rat(1, 2)
        c2 == RInt(2)
        c1 == RInt(1)
        f == (c2 ** p) -- c2
    IN  (f ** f ** f ** f ** f ** c05) ++ c1

quintic_in_out(p0) ==
    LET p == normalized(p0)
        c05 == Rat(1, 2)
    IN  IF RLt(p, c05) THEN quintic_in_out_lower(p)
        ELSE quintic_in_out_upper(p)

sine_in(p0) ==
    LET p == normalized(p0)
        c1 == RInt(1)
        cpi_2 == PI_2
    IN  Sin((p -- c1) ** cpi_2) ++ c1

sine_out(p0) ==
    LET p == normalized(p0)
        cpi_2 == PI_2
    IN  Sin(p ** cpi_2)

\* sine_in_out has no branch: one formula serves every p (line 348).
sine_in_out_formula(p) ==
    LET c05 == Rat(1, 2)
        c1 == RInt(1)
        cpi == PI
    IN  c05 ** (c1 -- Cos(p ** cpi))

sine_in_out(p0) ==
    LET p == normalized(p0)
    IN  sine_in_out_formula(p)

\* The arguments of the square roots (lines 358, 369, 386, 388).
circular_in_radicand(p) ==
    LET c1 == RInt(1)
    IN  c1 -- (p ** p)

circular_out_radicand(p) ==
    LET c2 == RInt(2)
    IN  (c2 -- p) ** p

circular_in_out_lower_radicand(p) ==
    LET c1 == RInt(1)
        c4 == RInt(4)
    IN  c1 -- (c4 ** (p ** p))

circular_in_out_upper_radicand(p) ==
    LET c1 == RInt(1)
        c2 == RInt(2)
        c3 == RInt(3)
    IN  RNeg((c2 ** p) -- c3) ** ((c2 ** p) -- c1)

circular_in(p0) ==
    LET p == normalized(p0)
        c1 == RInt(1)
    IN  c1 -- Sqrt(circular_in_radicand(p))

circular_out(p0) ==
    LET p == normalized(p0)
    IN  Sqrt(circular_out_radicand(p))

circular_in_out_lower(p) ==
    LET c05 == Rat(1, 2)
        c1 == RInt(1)
    IN  c05 ** (c1 -- Sqrt(circular_in_out_lower_radicand(p)))

circular_in_out_upper(p) ==
    LET c05 == Rat(1, 2)
        c1 == RInt(1)
    IN  c05 ** (Sqrt(circular_in_out_upper_radicand(p)) ++ c1)

\* circular_in_out with the two arms exchanged.
circular_in_out_swapped(p0) ==
    LET p == normalized(p0)
        c05 == Rat(1, 2)
    IN  IF RLt(p, c05) THEN circular_in_out_upper(p)
        ELSE circular_in_out_lower(p)

circular_in_out(p0) ==
    LET p == normalized(p0)
        c05 == Rat(1, 2)
    IN  IF RLt(p, c05) THEN circular_in_out_lower(p)
        ELSE circular_in_out_upper(p)

\* exponential_in with the special case of p == 0 left out.
exponential_in_no_special(p0) ==
    LET p == normalized(p0)
        c2 == RInt(2)
        c10 == RInt(10)
        c1 == RInt(1)
    IN  Powf(c2, c10 ** (p -- c1))

exponential_in(p0) ==
    LET p == normalized(p0)
        c0 == RInt(0)
        c2 == RInt(2)
        c10 == RInt(10)
        c1 == RInt(1)
    IN  IF REq(p, c0) THEN p
        ELSE Powf(c2, c10 ** (p -- c1))

exponential_out(p0) ==
    LET p == normalized(p0)
        c1 == RInt(1)
        c2 == RInt(2)
        c10 == RInt(10)
    IN  IF REq(p, c1) THEN p
        ELSE c1 -- Powf(c2, RNeg(c10) ** p)

exponential_in_out_lower(p) ==
    LET c05 == Rat(1, 2)
        c2 == RInt(2)
        c20 == RInt(20)
        c10 == RInt(10)
    IN  c05 ** Powf(c2, (c20 ** p) -- c10)

exponential_in_out_upper(p) ==
    LET c05 == Rat(1, 2)
        c2 == RInt(2)
        c20 == RInt(20)
        c10 == RInt(10)
        c1 == RInt(1)
    IN  (RNeg(c05) ** Powf(c2, (RNeg(c20) ** p) ++ c10)) ++ c1

\* The code's _0 is Float::one() (line 436), so `p == _0` tests p against 1.
exponential_in_out(p0) ==
    LET p == normalized(p0)
        c0 == RInt(1)
        c1 == RInt(1)
        c05 == Rat(1, 2)
    IN  IF REq(p, c0) \/ REq(p, c1) THEN p
        ELSE IF RLt(p, c05) THEN exponential_in_out_lower(p)
        ELSE exponential_in_out_upper(p)

elastic_in(p0) ==
    LET p == normalized(p0)
        c13 == RInt(13)
        cpi_2 == PI_2
        c2 == RInt(2)
        c10 == RInt(10)
        c1 == RInt(1)
    IN  Sin(c13 ** cpi_2 ** p) ** Powf(c2, c10 ** (p -- c1))

elastic_out(p0) ==
    LET p == normalized(p0)
        c13 == RInt(13)
        c10 == RInt(10)
        c2 == RInt(2)
        cpi_2 == PI_2
        c1 == RInt(1)
    IN  (Sin(RNeg(c13) ** cpi_2 ** (p ++ c1)) ** Powf(c2, RNeg(c10) ** p)) ++ c1

elastic_in_out_lower(p) ==
    LET c05 == Rat(1, 2)
        c13 == RInt(13)
        cpi_2 == PI_2
        c2 == RInt(2)
        c10 == RInt(10)
        c1 == RInt(1)
    IN  c05 ** Sin(c13 ** cpi_2 ** (c2 ** p)) ** Powf(c2, c10 ** ((c2 ** p) -- c1))

\* The upper arm of elastic_in_out with + _1 instead of + _2.
elastic_in_out_upper_plus_one(p) ==
    LET c05 == Rat(1, 2)
        c13 == RInt(13)
        cpi_2 == PI_2
        c2 == RInt(2)
        c10 == RInt(10)
        c1 == RInt(1)
    IN  c05 ** ((Sin(RNeg(c13) ** cpi_2 ** (((c2 ** p) -- c1) ++ c1))
                    ** Powf(c2, RNeg(c10) ** ((c2 ** p) -- c1))) ++ c1)

elastic_in_out_upper(p) ==
    LET c05 == Rat(1, 2)
        c13 == RInt(13)
        cpi_2 == PI_2
        c2 == RInt(2)
        c10 == RInt(10)
        c1 == RInt(1)
    IN  c05 ** ((Sin(RNeg(c13) ** cpi_2 ** (((c2 ** p) -- c1) ++ c1))
                    ** Powf(c2, RNeg(c10) ** ((c2 ** p) -- c1))) ++ c2)

elastic_in_out(p0) ==
    LET p == normalized(p0)
        c05 == Rat(1, 2)
    IN  IF RLt(p, c05) THEN elastic_in_out_lower(p)
        ELSE elastic_in_out_upper(p)

back_in(p0) ==
    LET p == normalized(p0)
        cpi == PI
    IN  (p ** p ** p) -- (p ** Sin(p ** cpi))

back_out(p0) ==
    LET p == normalized(p0)
        c1 == RInt(1)
        cpi == PI
        f == c1 -- p
    IN  c1 -- ((f ** f ** f) -- (f ** Sin(f ** cpi)))

back_in_out_lower(p) ==
    LET c05 == Rat(1, 2)
        c2 == RInt(2)
        cpi == PI
        f == c2 ** p
    IN  c05 ** ((f ** f ** f) -- (f ** Sin(f ** cpi)))

back_in_out_upper(p) ==
    LET c05 == Rat(1, 2)
        c2 == RInt(2)
        cpi == PI
        c1 == RInt(1)
        f == c1 -- ((c2 ** p) -- c1)
    IN  (c05 ** (c1 -- ((f ** f ** f) -- (f ** Sin(f ** cpi))))) ++ c05

back_in_out(p0) ==
    LET p == normalized(p0)
        c05 == Rat(1, 2)
    IN  IF RLt(p, c05) THEN back_in_out_lower(p)
        ELSE back_in_out_upper(p)

\* bounce_out with a slip in one constant: 16060 for 16061.
bounce_out_slip(p0) ==
    LET p == normalized(p0)
        c4 == RInt(4)
        c11 == RInt(11)
        c121 == RInt(121)
        c16 == RInt(16)
        c8 == RInt(8)
        c363 == RInt(363)
        c40 == RInt(40)
        c99 == RInt(99)
        c10 == RInt(10)
        c17 == RInt(17)
        c5 == RInt(5)
        c9 == RInt(9)
        c4356 == RInt(4356)
        c361 == RInt(361)
        c35442 == RInt(35442)
        c1805 == RInt(1805)
        c16061 == RInt(16060)
        c54 == RInt(54)
        c513 == RInt(513)
        c25 == RInt(25)
        c268 == RInt(268)
    IN  IF RLt(p, c4 // c11) THEN (c121 ** p ** p) // c16
        ELSE IF RLt(p, c8 // c11)
        THEN (((c363 // c40) ** p ** p) -- ((c99 // c10) ** p)) ++ (c17 // c5)
        ELSE IF RLt(p, c9 // c10)
        THEN (((c4356 // c361) ** p ** p) -- ((c35442 // c1805) ** p)) ++ (c16061 // c1805)
        ELSE (((c54 // c5) ** p ** p) -- ((c513 // c25) ** p)) ++ (c268 // c25)

\* The divisors of bounce_out (lines 588-598).
bounce_out_divisors ==
    {RInt(11), RInt(16), RInt(40), RInt(10), RInt(5), RInt(361), RInt(1805),
     RInt(25)}

bounce_out(p0) ==
    LET p == normalized(p0)
        c4 == RInt(4)
        c11 == RInt(11)
        c121 == RInt(121)
        c16 == RInt(16)
        c8 == RInt(8)
        c363 == RInt(363)
        c40 == RInt(40)
        c99 == RInt(99)
        c10 == RInt(10)
        c17 == RInt(17)
        c5 == RInt(5)
        c9 == RInt(9)
        c4356 == RInt(4356)
        c361 == RInt(361)
        c35442 == RInt(35442)
        c1805 == RInt(1805)
        c16061 == RInt(16061)
        c54 == RInt(54)
        c513 == RInt(513)
        c25 == RInt(25)
        c268 == RInt(268)
    IN  IF RLt(p, c4 // c11) THEN (c121 ** p ** p) // c16
        ELSE IF RLt(p, c8 // c11)
        THEN (((c363 // c40) ** p ** p) -- ((c99 // c10) ** p)) ++ (c17 // c5)
        ELSE IF RLt(p, c9 // c10)
        THEN (((c4356 // c361) ** p ** p) -- ((c35442 // c1805) ** p)) ++ (c16061 // c1805)
        ELSE (((c54 // c5) ** p ** p) -- ((c513 // c25) ** p)) ++ (c268 // c25)

\* bounce_in without the reflection of the argument.
bounce_in_no_mirror(p0) ==
    LET p == normalized(p0)
        c1 == RInt(1)
    IN  c1 -- bounce_out(p)

bounce_in(p0) ==
    LET p == normalized(p0)
        c1 == RInt(1)
    IN  c1 -- bounce_out(c1 -- p)

bounce_in_out_lower(p) ==
    LET c05 == Rat(1, 2)
        c2 == RInt(2)
    IN  c05 ** bounce_in(p ** c2)

bounce_in_out_upper(p) ==
    LET c05 == Rat(1, 2)
        c2 == RInt(2)
        c1 == RInt(1)
    IN  (c05 ** bounce_out((p ** c2) -- c1)) ++ c05

bounce_in_out(p0) ==
    LET p == normalized(p0)
        c05 == Rat(1, 2)
    IN  IF RLt(p, c05) THEN bounce_in_out_lower(p)
        ELSE bounce_in_out_upper(p)

---------------------------------------------------------------------------
(* Floating-point rounding, for the f32 and f64 scalars of src/src/lerp.rs.*)
(* A value of the model is a rational whose numerator and denominator are  *)
(* TLC integers, so it is below 2^31 in magnitude; exponent overflow and   *)
(* subnormals are out of reach and not modelled.                           *)

\* f32::MANTISSA_DIGITS: the significand of the scalar the macros of lines
\* 56-58 and 80-82 name.
F32_MANTISSA_DIGITS == 24

RECURSIVE Pow2(_)
Pow2(n) == IF n = 0 THEN 1 ELSE 2 * Pow2(n - 1)

RECURSIVE IsPow2(_)
IsPow2(d) == d = 1 \/ (d > 1 /\ d % 2 = 0 /\ IsPow2(d \div 2))

RAbs(a) == <<Abs(a[1]), a[2]>>

\* The power of two u with 2^(m-1) <= q/u < 2^m, for q > 0: the unit in the
\* last place of q in a significand of m bits.
RECURSIVE UlpFrom(_, _, _)
UlpFrom(q, u, m) ==
    IF RFloor(q // u) < Pow2(m - 1) THEN UlpFrom(q, u // RInt(2), m)
    ELSE IF Pow2(m) <= RFloor(q // u) THEN UlpFrom(q, u ** RInt(2), m)
    ELSE u

Ulp(q, m) == UlpFrom(q, RInt(1), m)

\* q = n / 2^k with |n| < 2^m is a value of a significand of m bits.
Fits(q, m) == IsPow2(q[2]) /\ Abs(q[1]) < Pow2(m)

\* k units u of the last place, with the sign of q.
WithSign(q, k, u) == IF q[1] < 0 THEN RNeg(RInt(k) ** u) ELSE RInt(k) ** u

\* |q| / u is k or lies between k and k + 1: the upper neighbour.
Above(q, u, k) == IF RInt(k) ** u = RAbs(q) THEN k ELSE k + 1

\* The neighbour nearest to k + frac, the even one for frac = 1/2.
Nearest(k, frac) ==
    IF RLt(frac, Half) THEN k
    ELSE IF RLt(Half, frac) THEN k + 1
    ELSE IF k % 2 = 0 THEN k ELSE k + 1

TowardZeroAt(q, u) == WithSign(q, RFloor(RAbs(q) // u), u)

AwayFromZeroAt(q, u) == WithSign(q, Above(q, u, RFloor(RAbs(q) // u)), u)

NearestEvenIn(q, u, sc) == WithSign(q, Nearest(RFloor(sc), sc -- RInt(RFloor(sc))), u)

NearestEvenAt(q, u) == NearestEvenIn(q, u, RAbs(q) // u)

\* q rounded toward zero and away from zero to a significand of m bits.
TowardZero(q, m) ==
    IF Fits(q, m) THEN q ELSE TowardZeroAt(q, Ulp(RAbs(q), m))

AwayFromZero(q, m) ==
    IF Fits(q, m) THEN q ELSE AwayFromZeroAt(q, Ulp(RAbs(q), m))

\* q rounded to the nearest value of a significand of m bits, ties to even.
NearestEven(q, m) ==
    IF Fits(q, m) THEN q ELSE NearestEvenAt(q, Ulp(RAbs(q), m))

\* The scalar type of each implementation (lines 38-39, 56-59, 80-83).
ScalarOf(ty) ==
    CASE ty \in {"f32", "i8", "i16", "i32", "u8", "u16", "u32"} -> "f32"
      [] ty \in {"f64", "i64", "u64"} -> "f64"

\* The results a correctly rounded operation of scalar type sc can give for
\* the exact value q.  f32: the nearest value of 24 bits.  f64: q itself if
\* q is a dyadic rational (every such q of the model fits 53 bits);
\* otherwise the nearest value of 53 bits is not a value of the model, and
\* lies between the two neighbours of q of 24 bits: both are outcomes.
FloatRound(sc, q) ==
    IF IsNaN(q) THEN {NaN}
    ELSE IF sc = "f32" THEN {NearestEven(q, F32_MANTISSA_DIGITS)}
    ELSE IF IsPow2(q[2]) THEN {q}
    ELSE {TowardZero(q, F32_MANTISSA_DIGITS), AwayFromZero(q, F32_MANTISSA_DIGITS)}

\* f.round(): to the nearest integer, halves away from zero.
Round(q) ==
    LET fl == Abs(q[1]) \div q[2]
        rem == Abs(q[1]) % q[2]
        k == IF 2 * rem >= q[2] THEN fl + 1 ELSE fl
    IN  IF q[1] < 0 THEN -k ELSE k

---------------------------------------------------------------------------
(* src/src/lerp.rs.  A type is [elem |-> e, len |-> n]: the scalar type e  *)
(* for n = 0, the array [e; n] for n in 1..5.  Integer arithmetic can      *)
(* overflow, and then the build decides: a call has a set of outcomes,     *)
(* [val |-> v] for a returned v and [panic |-> TRUE] for a panic.          *)

FloatTypes == {"f32", "f64"}

SignedTypes == {"i8", "i16", "i32", "i64"}

UnsignedTypes == {"u8", "u16", "u32", "u64"}

IntTypes == SignedTypes \cup UnsignedTypes

Bits(e) ==
    CASE e \in {"i8", "u8"} -> 8
      [] e \in {"i16", "u16"} -> 16
      [] e \in {"i32", "u32"} -> 32
      [] e \in {"i64", "u64"} -> 64

\* The types whose whole range is made of values of the model.
Narrow(e) == Bits(e) < 32

MinOf(e) == IF e \in SignedTypes THEN -Pow2(Bits(e) - 1) ELSE 0

MaxOf(e) == IF e \in SignedTypes THEN Pow2(Bits(e) - 1) - 1 ELSE Pow2(Bits(e)) - 1

\* Every value of the model is in the range of i32 and i64, and every such
\* value >= 0 in the range of u32 and u64.
InRange(e, v) ==
    IF Narrow(e) THEN MinOf(e) <= v /\ v <= MaxOf(e)
    ELSE e \in SignedTypes \/ v >= 0

\* v modulo 2^Bits(e), in the range of e.
Wrap(e, v) ==
    LET m == Pow2(Bits(e))
    IN  IF e \in SignedTypes THEN ((v - MinOf(e)) % m) + MinOf(e) ELSE v % m

Ok(v) == [val |-> v]

Panic == [panic |-> TRUE]

\* A wrapped value of u32 or u64, which is no value of the model.
WrappedWide == [wrapped |-> TRUE]

IsOk(o) == "val" \in DOMAIN o

\* The outcomes of an integer +, - whose exact result is v: overflow panics
\* with overflow checks on and wraps with them off.
Checked(e, v) ==
    IF InRange(e, v) THEN {Ok(v)}
    ELSE IF Narrow(e) THEN {Panic, Ok(Wrap(e, v))}
    ELSE {Panic, WrappedWide}

\* `k as $int` for an integer-valued float k: the value if it is in range;
\* out of range the cast saturates (Rust from 1.45 on) and was undefined
\* before, where the conversion instruction gives the wrapped value.
CastInt(e, k) ==
    IF InRange(e, k) THEN {Ok(k)}
    ELSE IF Narrow(e) THEN {Ok(IF k < 0 THEN MinOf(e) ELSE MaxOf(e)), Ok(Wrap(e, k))}
    ELSE {Ok(0), WrappedWide}

\* The outcomes of F on every returned value of outs; a panic stays one.
Then(outs, F(_)) == UNION {IF IsOk(o) THEN F(o.val) ELSE {o} : o \in outs}

\* `(d as $scalar * scalar).round() as $int` for the integer d.
ScaledRound(e, d, scalar) ==
    LET sc == ScalarOf(e)
    IN  UNION {UNION {CastInt(e, Round(pr)) : pr \in FloatRound(sc, f ** scalar)}
                 : f \in FloatRound(sc, RInt(d))}

\* impl_lerp_for_float with `other + self` for the difference.
lerp_float_sum(e, self, other, scalar) ==
    UNION {UNION {{Ok(r) : r \in FloatRound(e, self ++ pr)}
                    : pr \in FloatRound(e, d ** scalar)}
             : d \in FloatRound(e, other ++ self)}

\* impl_lerp_for_float (line 32): self + (other - self) * scalar
lerp_float(e, self, other, scalar) ==
    UNION {UNION {{Ok(r) : r \in FloatRound(e, self ++ pr)}
                    : pr \in FloatRound(e, d ** scalar)}
             : d \in FloatRound(e, other -- self)}

\* impl_lerp_for_int with `other + self` for the difference.
lerp_int_sum(e, self, other, scalar) ==
    Then(Checked(e, other + self), LAMBDA d :
        Then(ScaledRound(e, d, scalar), LAMBDA c : Checked(e, self + c)))

\* impl_lerp_for_int with the .round() left out: `as` truncates.
lerp_int_truncating(e, self, other, scalar) ==
    LET sc == ScalarOf(e)
        Trunc(q) == IF q[1] < 0 THEN -(Abs(q[1]) \div q[2]) ELSE q[1] \div q[2]
    IN  Then(Checked(e, other - self), LAMBDA d :
            Then(UNION {UNION {CastInt(e, Trunc(pr)) : pr \in FloatRound(sc, f ** scalar)}
                          : f \in FloatRound(sc, RInt(d))},
                 LAMBDA c : Checked(e, self + c)))

\* impl_lerp_for_int (line 50):
\*   self + ((other - self) as $scalar * scalar).round() as $int
lerp_int(e, self, other, scalar) ==
    Then(Checked(e, other - self), LAMBDA d :
        Then(ScaledRound(e, d, scalar), LAMBDA c : Checked(e, self + c)))

\* impl_lerp_for_uint (lines 70-74)
lerp_uint(e, self, other, scalar) ==
    IF self <= other
    THEN Then(Checked(e, other - self), LAMBDA d :
            Then(ScaledRound(e, d, scalar), LAMBDA c : Checked(e, self + c)))
    ELSE Then(Checked(e, self - other), LAMBDA d :
            Then(ScaledRound(e, d, scalar), LAMBDA c : Checked(e, self - c)))

\* Lerp::lerp of a scalar type.
lerp_scalar(e, self, other, scalar) ==
    IF e \in FloatTypes THEN lerp_float(e, self, other, scalar)
    ELSE IF e \in SignedTypes THEN lerp_int(e, self, other, scalar)
    ELSE lerp_uint(e, self, other, scalar)

\* The arrays of length n whose i-th element is a returned value of the
\* i-th set of outcomes; one panic when an element panics.
RECURSIVE Collect(_, _)
Collect(outs, n) ==
    IF n = 0 THEN {Ok(<<>>)}
    ELSE Then(Collect(outs, n - 1), LAMBDA front :
            UNION {IF IsOk(o) THEN {Ok(Append(front, o.val))} ELSE {o} : o \in outs[n]})

\* impl_lerp_for_array (lines 92-96): [self[i].lerp(&other[i], scalar), ...]
lerp_array(e, n, self, other, scalar) ==
    Collect([i \in 1..n |-> lerp_scalar(e, self[i], other[i], scalar)], n)

\* lerp (lines 10-12): a.lerp(b, t), by the type of a.
lerp(ty, a, b, t) ==
    IF ty.len = 0 THEN lerp_scalar(ty.elem, a, b, t)
    ELSE lerp_array(ty.elem, ty.len, a, b, t)

---------------------------------------------------------------------------
(* src/src/lib.rs: the Bezier curves, nested linear interpolations.  A     *)
(* panic of an inner lerp is the panic of the call.                        *)

\* quad_bez (lines 32-34)
quad_bez(ty, x0, x1, x2, t) ==
    Then(lerp(ty, x0, x1, t), LAMBDA x_0_1 :
        Then(lerp(ty, x1, x2, t), LAMBDA x_1_2 :
            lerp(ty, x_0_1, x_1_2, t)))

\* cub_bez (lines 50-52)
cub_bez(ty, x0, x1, x2, x3, t) ==
    Then(quad_bez(ty, x0, x1, x2, t), LAMBDA x_0_2 :
        Then(quad_bez(ty, x1, x2, x3, t), LAMBDA x_1_3 :
            lerp(ty, x_0_2, x_1_3, t)))

---------------------------------------------------------------------------
(* src/src/spatial.rs: add, sub and scale of the floats, the integers and  *)
(* the arrays of length 2 to 4.                                            *)

\* impl_spatial_for_float (lines 23-35)
add_float(e, self, other) == {Ok(r) : r \in FloatRound(e, self ++ other)}

sub_float(e, self, other) == {Ok(r) : r \in FloatRound(e, self -- other)}

scale_float(e, self, other) == {Ok(r) : r \in FloatRound(e, self ** other)}

\* impl_spatial_for_int (lines 51-63)
add_int(e, self, other) == Checked(e, self + other)

sub_int(e, self, other) == Checked(e, self - other)

\* scale of the signed integers with the .round() left out: `as` truncates.
scale_int_truncating(e, self, other) ==
    LET sc == ScalarOf(e)
        Trunc(q) == IF q[1] < 0 THEN -(Abs(q[1]) \div q[2]) ELSE q[1] \div q[2]
    IN  UNION {UNION {CastInt(e, Trunc(pr)) : pr \in FloatRound(sc, f ** other)}
                 : f \in FloatRound(sc, RInt(self))}

\* line 62: ((*self as $scalar) * *other).round() as $int
scale_int(e, self, other) == ScaledRound(e, self, other)

\* impl_spatial_for_uint (lines 81-98)
add_uint(e, self, other) == Checked(e, self + other)

\* sub of the unsigned integers without the comparison: *self - *other.
sub_uint_direct(e, self, other) == Checked(e, self - other)

\* lines 88-92: the absolute difference
sub_uint(e, self, other) ==
    IF self >= other THEN Checked(e, self - other)
    ELSE Checked(e, other - self)

scale_uint(e, self, other) == ScaledRound(e, self, other)

\* Spatial::add, sub and scale of a scalar type.
add_scalar(e, self, other) ==
    IF e \in FloatTypes THEN add_float(e, self, other)
    ELSE IF e \in SignedTypes THEN add_int(e, self, other)
    ELSE add_uint(e, self, other)

sub_scalar(e, self, other) ==
    IF e \in FloatTypes THEN sub_float(e, self, other)
    ELSE IF e \in SignedTypes THEN sub_int(e, self, other)
    ELSE sub_uint(e, self, other)

scale_scalar(e, self, scalar) ==
    IF e \in FloatTypes THEN scale_float(e, self, scalar)
    ELSE IF e \in SignedTypes THEN scale_int(e, self, scalar)
    ELSE scale_uint(e, self, scalar)

\* impl Spatial for [T; 2], [T; 3], [T; 4] (lines 108-208): element by
\* element.
add_array(e, n, self, other) ==
    Collect([i \in 1..n |-> add_scalar(e, self[i], other[i])], n)

sub_array(e, n, self, other) ==
    Collect([i \in 1..n |-> sub_scalar(e, self[i], other[i])], n)

scale_array(e, n, self, scalar) ==
    Collect([i \in 1..n |-> scale_scalar(e, self[i], scalar)], n)

\* Spatial::add, sub, scale, by the type of self.
add(ty, self, other) ==
    IF ty.len = 0 THEN add_scalar(ty.elem, self, other)
    ELSE add_array(ty.elem, ty.len, self, other)

sub(ty, self, other) ==
    IF ty.len = 0 THEN sub_scalar(ty.elem, self, other)
    ELSE sub_array(ty.elem, ty.len, self, other)

scale(ty, self, scalar) ==
    IF ty.len = 0 THEN scale_scalar(ty.elem, self, scalar)
    ELSE scale_array(ty.elem, ty.len, self, scalar)

---------------------------------------------------------------------------
\* The span of the tests of lerp.rs: they interpolate between 0 and 10 (or
\* -10) with the weights k/10.
TEN == 10

\* The array [v; n], or v itself for n = 0.
Fill(ty, v) == IF ty.len = 0 THEN v ELSE [i \in 1..ty.len |-> v]

\* The four loops of lerp_i8 (lines 155-173), for the x of the assertion:
\* the endpoints a and b, and the k of the weight w = k as f32 / 10f32.
TestCase(loop, x) ==
    CASE loop = 1 -> [a |-> 0, b |-> TEN, k |-> x]
      [] loop = 2 -> [a |-> TEN, b |-> 0, k |-> TEN - x]
      [] loop = 3 -> [a |-> -TEN, b |-> 0, k |-> TEN + x]
      [] loop = 4 -> [a |-> 0, b |-> -TEN, k |-> 0 - x]

\* The x each loop runs over: 0 ..= 10 in loops 1 and 2, -10 .. 0 in 3 and 4.
TestRange(loop) == IF loop <= 2 THEN 0..TEN ELSE (-TEN)..(-1)

\* One iteration of a test of lerp.rs: what lerp returns for the x of the
\* assertion.
lerp_test(ty, loop, x) ==
    LET c == TestCase(loop, x)
    IN  UNION {lerp(ty, Fill(ty, c.a), Fill(ty, c.b), w)
                 : w \in FloatRound(ScalarOf(ty.elem), RInt(c.k) // RInt(TEN))}

\* EaseFunction: the 30 tags of the enum.
EaseFunction ==
    {"EaseQuadraticIn", "EaseQuadraticOut", "EaseQuadraticInOut",
     "EaseCubicIn", "EaseCubicOut", "EaseCubicInOut",
     "EaseQuarticIn", "EaseQuarticOut", "EaseQuarticInOut",
     "EaseQuinticIn", "EaseQuinticOut", "EaseQuinticInOut",
     "EaseSineIn", "EaseSineOut", "EaseSineInOut",
     "EaseCircularIn", "EaseCircularOut", "EaseCircularInOut",
     "EaseExponentialIn", "EaseExponentialOut", "EaseExponentialInOut",
     "EaseElasticIn", "EaseElasticOut", "EaseElasticInOut",
     "EaseBackIn", "EaseBackOut", "EaseBackInOut",
     "EaseBounceIn", "EaseBounceOut", "EaseBounceInOut"}

\* A copy-and-paste slip in one arm of the match.
calc_slip(tag, p) ==
    CASE tag = "EaseQuadraticIn" -> quadratic_in(p)
      [] tag = "EaseQuadraticOut" -> quadratic_out(p)
      [] tag = "EaseQuadraticInOut" -> quadratic_in_out(p)
      [] tag = "EaseCubicIn" -> cubic_in(p)
      [] tag = "EaseCubicOut" -> cubic_out(p)
      [] tag = "EaseCubicInOut" -> cubic_in_out(p)
      [] tag = "EaseQuarticIn" -> quartic_in(p)
      [] tag = "EaseQuarticOut" -> quartic_out(p)
      [] tag = "EaseQuarticInOut" -> quartic_in_out(p)
      [] tag = "EaseQuinticIn" -> quintic_in(p)
      [] tag = "EaseQuinticOut" -> quintic_out(p)
      [] tag = "EaseQuinticInOut" -> quintic_in_out(p)
      [] tag = "EaseSineIn" -> sine_in(p)
      [] tag = "EaseSineOut" -> sine_out(p)
      [] tag = "EaseSineInOut" -> sine_in_out(p)
      [] tag = "EaseCircularIn" -> circular_in(p)
      [] tag = "EaseCircularOut" -> circular_out(p)
      [] tag = "EaseCircularInOut" -> circular_in_out(p)
      [] tag = "EaseExponentialIn" -> exponential_in(p)
      [] tag = "EaseExponentialOut" -> exponential_out(p)
      [] tag = "EaseExponentialInOut" -> exponential_in_out(p)
      [] tag = "EaseElasticIn" -> elastic_in(p)
      [] tag = "EaseElasticOut" -> elastic_out(p)
      [] tag = "EaseElasticInOut" -> elastic_in_out(p)
      [] tag = "EaseBackIn" -> back_in(p)
      [] tag = "EaseBackOut" -> back_out(p)
      [] tag = "EaseBackInOut" -> back_in_out(p)
      [] tag = "EaseBounceIn" -> bounce_in(p)
      [] tag = "EaseBounceOut" -> bounce_out(p)
      [] tag = "EaseBounceInOut" -> bounce_in(p)

\* EaseFunction::calc: the match of lines 105-145.
calc(tag, p) ==
    CASE tag = "EaseQuadraticIn" -> quadratic_in(p)
      [] tag = "EaseQuadraticOut" -> quadratic_out(p)
      [] tag = "EaseQuadraticInOut" -> quadratic_in_out(p)
      [] tag = "EaseCubicIn" -> cubic_in(p)
      [] tag = "EaseCubicOut" -> cubic_out(p)
      [] tag = "EaseCubicInOut" -> cubic_in_out(p)
      [] tag = "EaseQuarticIn" -> quartic_in(p)
      [] tag = "EaseQuarticOut" -> quartic_out(p)
      [] tag = "EaseQuarticInOut" -> quartic_in_out(p)
      [] tag = "EaseQuinticIn" -> quintic_in(p)
      [] tag = "EaseQuinticOut" -> quintic_out(p)
      [] tag = "EaseQuinticInOut" -> quintic_in_out(p)
      [] tag = "EaseSineIn" -> sine_in(p)
      [] tag = "EaseSineOut" -> sine_out(p)
      [] tag = "EaseSineInOut" -> sine_in_out(p)
      [] tag = "EaseCircularIn" -> circular_in(p)
      [] tag = "EaseCircularOut" -> circular_out(p)
      [] tag = "EaseCircularInOut" -> circular_in_out(p)
      [] tag = "EaseExponentialIn" -> exponential_in(p)
      [] tag = "EaseExponentialOut" -> exponential_out(p)
      [] tag = "EaseExponentialInOut" -> exponential_in_out(p)
      [] tag = "EaseElasticIn" -> elastic_in(p)
      [] tag = "EaseElasticOut" -> elastic_out(p)
      [] tag = "EaseElasticInOut" -> elastic_in_out(p)
      [] tag = "EaseBackIn" -> back_in(p)
      [] tag = "EaseBackOut" -> back_out(p)
      [] tag = "EaseBackInOut" -> back_in_out(p)
      [] tag = "EaseBounceIn" -> bounce_in(p)
      [] tag = "EaseBounceOut" -> bounce_out(p)
      [] tag = "EaseBounceInOut" -> bounce_in_out(p)

---------------------------------------------------------------------------
(* The calls.  Init draws one call of one function; the function's action  *)
(* applies it.                                                             *)

\* The names of the 30 easing functions.
EaseNames ==
    {"quadratic_in", "quadratic_out", "quadratic_in_out",
     "cubic_in", "cubic_out", "cubic_in_out",
     "quartic_in", "quartic_out", "quartic_in_out",
     "quintic_in", "quintic_out", "quintic_in_out",
     "sine_in", "sine_out", "sine_in_out",
     "circular_in", "circular_out", "circular_in_out",
     "exponential_in", "exponential_out", "exponential_in_out",
     "elastic_in", "elastic_out", "elastic_in_out",
     "back_in", "back_out", "back_in_out",
     "bounce_in", "bounce_out", "bounce_in_out"}

\* The multiples of 1/(2*HalfDen) from Outside steps below 0 to Outside
\* steps above 1, and the breakpoints 4/11, 8/11 and 9/10 of bounce_out.
EaseInputs ==
    {Rat(k, 2 * HalfDen) : k \in (-Outside)..(2 * HalfDen + Outside)}
        \cup {Rat(4, 11), Rat(8, 11), Rat(9, 10)}

InitEase ==
    /\ fn \in EaseNames
    /\ args \in [p : EaseInputs]

InitCalc ==
    /\ fn = "calc"
    /\ args \in [tag : EaseFunction, p : EaseInputs]

\* The values a call of lerp is given, by element type: the ends of the
\* range and values between for i8 .. u16; for the wider integers values up
\* to 2^28, among them 2^24 + 1, the first integer that is no f32, and
\* 2^24 + 3, which an f32 rounds up; for the floats values up to 2^25.
Values(e) ==
    CASE e = "i8" -> {-128, -100, -10, 0, 1, 10, 100, 127}
      [] e = "u8" -> {0, 1, 10, 100, 128, 200, 255}
      [] e = "i16" -> {-32768, -10, 0, 10, 32767}
      [] e = "u16" -> {0, 10, 300, 65535}
      [] e \in {"i32", "i64"} -> {-10, 0, 10, 16777217, 16777219, 268435456}
      [] e \in {"u32", "u64"} -> {0, 10, 16777217, 16777219, 268435456}
      [] e \in FloatTypes ->
            {RInt(0), RInt(1), RInt(-10), RInt(10), Half, RInt(33554432)}

\* The weights: 0 and 1, weights between, and weights outside [0,1].
Weights == {RInt(0), Rat(1, 4), Half, RInt(1), Rat(3, 2), RInt(2), Rat(-1, 2)}

\* The lengths of the arrays with a Lerp implementation (lines 101-105).
ArrayLens == 1..5

\* The two elements the arrays of the model are made of.
Pool(e) ==
    CASE e \in SignedTypes -> {-10, 100}
      [] e \in UnsignedTypes -> {10, 200}
      [] e \in FloatTypes -> {RInt(-10), Half}

\* The arrays of length n that alternate between two elements of the pool.
Arrays(e, n) ==
    {[i \in 1..n |-> IF i % 2 = 1 THEN u ELSE v] : u \in Pool(e), v \in Pool(e)}

ScalarTypes == [elem : IntTypes \cup FloatTypes, len : {0}]

ArrayTypes == [elem : IntTypes \cup FloatTypes, len : ArrayLens]

InitLerp ==
    /\ fn = "lerp"
    /\ \/ \E ty \in ScalarTypes :
            args \in [ty : {ty}, a : Values(ty.elem), b : Values(ty.elem), t : Weights]
       \/ \E ty \in ArrayTypes :
            args \in [ty : {ty}, a : Arrays(ty.elem, ty.len),
                      b : Arrays(ty.elem, ty.len), t : Weights]

\* The iterations of the tests: loops 1 and 2 for every integer type and
\* every array of integers, loops 3 and 4 for the signed integers.
InitLerpTest ==
    /\ fn = "lerp_test"
    /\ \E ty \in [elem : IntTypes, len : {0} \cup ArrayLens], loop \in 1..4 :
        /\ loop > 2 => (ty.elem \in SignedTypes /\ ty.len = 0)
        /\ args \in [ty : {ty}, loop : {loop}, x : TestRange(loop)]

\* The control points of a Bezier curve, by element type: for the narrow
\* integers points whose difference overflows, for the others points whose
\* difference is no value of the scalar type.
Points(e) ==
    CASE e = "i8" -> {-100, 0, 100}
      [] e = "u8" -> {0, 10, 200}
      [] e = "i16" -> {-10, 0, 32767}
      [] e = "u16" -> {0, 10, 300}
      [] e \in {"i32", "i64"} -> {-10, 0, 16777217}
      [] e \in {"u32", "u64"} -> {0, 10, 16777217}
      [] e \in FloatTypes -> {RInt(0), RInt(1), RInt(33554432)}

\* Two pairs of elements of the pool: a constant array and a mixed one.
PoolPairs(e) ==
    CASE e \in SignedTypes -> {<<-10, -10>>, <<100, -10>>}
      [] e \in UnsignedTypes -> {<<10, 10>>, <<10, 200>>}
      [] e \in FloatTypes -> {<<Half, Half>>, <<RInt(-10), Half>>}

TwoArrays(e, n) ==
    {[i \in 1..n |-> IF i % 2 = 1 THEN pr[1] ELSE pr[2]] : pr \in PoolPairs(e)}

\* The weights of the Bezier curves: 0 and 1, one weight between and
\* weights outside [0,1].
BezWeights == {RInt(0), Half, RInt(1), RInt(2), RInt(-1)}

\* The weights of the Bezier curves of arrays.
UnitWeights == {RInt(0), Half, RInt(1)}

InitQuadBez ==
    /\ fn = "quad_bez"
    /\ \/ \E ty \in ScalarTypes :
            args \in [ty : {ty}, x0 : Points(ty.elem), x1 : Points(ty.elem),
                      x2 : Points(ty.elem), t : BezWeights]
       \/ \E ty \in ArrayTypes :
            args \in [ty : {ty}, x0 : Arrays(ty.elem, ty.len),
                      x1 : TwoArrays(ty.elem, ty.len),
                      x2 : TwoArrays(ty.elem, ty.len), t : UnitWeights]

InitCubBez ==
    /\ fn = "cub_bez"
    /\ \/ \E ty \in ScalarTypes :
            args \in [ty : {ty}, x0 : Points(ty.elem), x1 : Points(ty.elem),
                      x2 : Points(ty.elem), x3 : Points(ty.elem), t : BezWeights]
       \/ \E ty \in ArrayTypes :
            args \in [ty : {ty}, x0 : TwoArrays(ty.elem, ty.len),
                      x1 : TwoArrays(ty.elem, ty.len),
                      x2 : TwoArrays(ty.elem, ty.len),
                      x3 : TwoArrays(ty.elem, ty.len), t : UnitWeights]

\* The lengths of the arrays with a Spatial implementation (lines 108-208).
SpatialLens == 2..4

SpatialTypes == ScalarTypes \cup [elem : IntTypes \cup FloatTypes, len : SpatialLens]

\* The operands of add and sub, and the self of scale.
Operands(ty) ==
    IF ty.len = 0 THEN Values(ty.elem) ELSE Arrays(ty.elem, ty.len)

InitAdd ==
    /\ fn = "add"
    /\ \E ty \in SpatialTypes :
            args \in [ty : {ty}, self : Operands(ty), other : Operands(ty)]

InitSub ==
    /\ fn = "sub"
    /\ \E ty \in SpatialTypes :
            args \in [ty : {ty}, self : Operands(ty), other : Operands(ty)]

InitScale ==
    /\ fn = "scale"
    /\ \E ty \in SpatialTypes :
            args \in [ty : {ty}, self : Operands(ty), scalar : Weights]

Init ==
    /\ pc = "call"
    /\ res = "none"
    /\ \/ InitEase
       \/ InitCalc
       \/ InitLerp
       \/ InitLerpTest
       \/ InitQuadBez
       \/ InitCubBez
       \/ InitAdd
       \/ InitSub
       \/ InitScale

\* A call returns: the result is stored and the call is over.
Return(name, value) ==
    /\ pc = "call"
    /\ fn = name
    /\ res' = value
    /\ pc' = "done"
    /\ UNCHANGED <<fn, args>>

Ease(name, value) == Return(name, value)

QuadraticIn == Ease("quadratic_in", quadratic_in(args.p))

QuadraticOut == Ease("quadratic_out", quadratic_out(args.p))

QuadraticInOut == Ease("quadratic_in_out", quadratic_in_out(args.p))

CubicIn == Ease("cubic_in", cubic_in(args.p))

CubicOut == Ease("cubic_out", cubic_out(args.p))

CubicInOut == Ease("cubic_in_out", cubic_in_out(args.p))

QuarticIn == Ease("quartic_in", quartic_in(args.p))

QuarticOut == Ease("quartic_out", quartic_out(args.p))

QuarticInOut == Ease("quartic_in_out", quartic_in_out(args.p))

QuinticIn == Ease("quintic_in", quintic_in(args.p))

QuinticOut == Ease("quintic_out", quintic_out(args.p))

QuinticInOut == Ease("quintic_in_out", quintic_in_out(args.p))

SineIn == Ease("sine_in", sine_in(args.p))

SineOut == Ease("sine_out", sine_out(args.p))

SineInOut == Ease("sine_in_out", sine_in_out(args.p))

CircularIn == Ease("circular_in", circular_in(args.p))

CircularOut == Ease("circular_out", circular_out(args.p))

CircularInOut == Ease("circular_in_out", circular_in_out(args.p))

ExponentialIn == Ease("exponential_in", exponential_in(args.p))

ExponentialOut == Ease("exponential_out", exponential_out(args.p))

ExponentialInOut == Ease("exponential_in_out", exponential_in_out(args.p))

ElasticIn == Ease("elastic_in", elastic_in(args.p))

ElasticOut == Ease("elastic_out", elastic_out(args.p))

ElasticInOut == Ease("elastic_in_out", elastic_in_out(args.p))

BackIn == Ease("back_in", back_in(args.p))

BackOut == Ease("back_out", back_out(args.p))

BackInOut == Ease("back_in_out", back_in_out(args.p))

BounceIn == Ease("bounce_in", bounce_in(args.p))

BounceOut == Ease("bounce_out", bounce_out(args.p))

BounceInOut == Ease("bounce_in_out", bounce_in_out(args.p))

Calc == Return("calc", calc(args.tag, args.p))

\* A call with several outcomes returns one of them.
ReturnOneOf(name, outs) ==
    /\ pc = "call"
    /\ fn = name
    /\ \E o \in outs : res' = o
    /\ pc' = "done"
    /\ UNCHANGED <<fn, args>>

Lerp == ReturnOneOf("lerp", lerp(args.ty, args.a, args.b, args.t))

LerpTest == ReturnOneOf("lerp_test", lerp_test(args.ty, args.loop, args.x))

QuadBez ==
    ReturnOneOf("quad_bez", quad_bez(args.ty, args.x0, args.x1, args.x2, args.t))

CubBez ==
    ReturnOneOf("cub_bez",
                cub_bez(args.ty, args.x0, args.x1, args.x2, args.x3, args.t))

Add == ReturnOneOf("add", add(args.ty, args.self, args.other))

Sub == ReturnOneOf("sub", sub(args.ty, args.self, args.other))

Scale == ReturnOneOf("scale", scale(args.ty, args.self, args.scalar))

Next ==
    \/ QuadraticIn
    \/ QuadraticOut
    \/ QuadraticInOut
    \/ CubicIn
    \/ CubicOut
    \/ CubicInOut
    \/ QuarticIn
    \/ QuarticOut
    \/ QuarticInOut
    \/ QuinticIn
    \/ QuinticOut
    \/ QuinticInOut
    \/ SineIn
    \/ SineOut
    \/ SineInOut
    \/ CircularIn
    \/ CircularOut
    \/ CircularInOut
    \/ ExponentialIn
    \/ ExponentialOut
    \/ ExponentialInOut
    \/ ElasticIn
    \/ ElasticOut
    \/ ElasticInOut
    \/ BackIn
    \/ BackOut
    \/ BackInOut
    \/ BounceIn
    \/ BounceOut
    \/ BounceInOut
    \/ Calc
    \/ Lerp
    \/ LerpTest
    \/ QuadBez
    \/ CubBez
    \/ Add
    \/ Sub
    \/ Scale

Spec == Init /\ [][Next]_vars

---------------------------------------------------------------------------
(* What the claims are stated with.                                        *)

\* A direct call of the easing function called `name`.
EaseByName(name, p) ==
    CASE name = "quadratic_in" -> quadratic_in(p)
      [] name = "quadratic_out" -> quadratic_out(p)
      [] name = "quadratic_in_out" -> quadratic_in_out(p)
      [] name = "cubic_in" -> cubic_in(p)
      [] name = "cubic_out" -> cubic_out(p)
      [] name = "cubic_in_out" -> cubic_in_out(p)
      [] name = "quartic_in" -> quartic_in(p)
      [] name = "quartic_out" -> quartic_out(p)
      [] name = "quartic_in_out" -> quartic_in_out(p)
      [] name = "quintic_in" -> quintic_in(p)
      [] name = "quintic_out" -> quintic_out(p)
      [] name = "quintic_in_out" -> quintic_in_out(p)
      [] name = "sine_in" -> sine_in(p)
      [] name = "sine_out" -> sine_out(p)
      [] name = "sine_in_out" -> sine_in_out(p)
      [] name = "circular_in" -> circular_in(p)
      [] name = "circular_out" -> circular_out(p)
      [] name = "circular_in_out" -> circular_in_out(p)
      [] name = "exponential_in" -> exponential_in(p)
      [] name = "exponential_out" -> exponential_out(p)
      [] name = "exponential_in_out" -> exponential_in_out(p)
      [] name = "elastic_in" -> elastic_in(p)
      [] name = "elastic_out" -> elastic_out(p)
      [] name = "elastic_in_out" -> elastic_in_out(p)
      [] name = "back_in" -> back_in(p)
      [] name = "back_out" -> back_out(p)
      [] name = "back_in_out" -> back_in_out(p)
      [] name = "bounce_in" -> bounce_in(p)
      [] name = "bounce_out" -> bounce_out(p)
      [] name = "bounce_in_out" -> bounce_in_out(p)

\* The function that carries the name of a tag: EaseBounceInOut names
\* bounce_in_out.
SameNamed(tag) ==
    CASE tag = "EaseQuadraticIn" -> "quadratic_in"
      [] tag = "EaseQuadraticOut" -> "quadratic_out"
      [] tag = "EaseQuadraticInOut" -> "quadratic_in_out"
      [] tag = "EaseCubicIn" -> "cubic_in"
      [] tag = "EaseCubicOut" -> "cubic_out"
      [] tag = "EaseCubicInOut" -> "cubic_in_out"
      [] tag = "EaseQuarticIn" -> "quartic_in"
      [] tag = "EaseQuarticOut" -> "quartic_out"
      [] tag = "EaseQuarticInOut" -> "quartic_in_out"
      [] tag = "EaseQuinticIn" -> "quintic_in"
      [] tag = "EaseQuinticOut" -> "quintic_out"
      [] tag = "EaseQuinticInOut" -> "quintic_in_out"
      [] tag = "EaseSineIn" -> "sine_in"
      [] tag = "EaseSineOut" -> "sine_out"
      [] tag = "EaseSineInOut" -> "sine_in_out"
      [] tag = "EaseCircularIn" -> "circular_in"
      [] tag = "EaseCircularOut" -> "circular_out"
      [] tag = "EaseCircularInOut" -> "circular_in_out"
      [] tag = "EaseExponentialIn" -> "exponential_in"
      [] tag = "EaseExponentialOut" -> "exponential_out"
      [] tag = "EaseExponentialInOut" -> "exponential_in_out"
      [] tag = "EaseElasticIn" -> "elastic_in"
      [] tag = "EaseElasticOut" -> "elastic_out"
      [] tag = "EaseElasticInOut" -> "elastic_in_out"
      [] tag = "EaseBackIn" -> "back_in"
      [] tag = "EaseBackOut" -> "back_out"
      [] tag = "EaseBackInOut" -> "back_in_out"
      [] tag = "EaseBounceIn" -> "bounce_in"
      [] tag = "EaseBounceOut" -> "bounce_out"
      [] tag = "EaseBounceInOut" -> "bounce_in_out"

\* The arm an *_in_out function takes below 0.5 and the one it takes from
\* 0.5 on, as formulas of p.
LowerArm(name, p) ==
    CASE name = "quadratic_in_out" -> quadratic_in_out_lower(p)
      [] name = "cubic_in_out" -> cubic_in_out_lower(p)
      [] name = "quartic_in_out" -> quartic_in_out_lower(p)
      [] name = "quintic_in_out" -> quintic_in_out_lower(p)
      [] name = "sine_in_out" -> sine_in_out_formula(p)
      [] name = "circular_in_out" -> circular_in_out_lower(p)
      [] name = "exponential_in_out" -> exponential_in_out_lower(p)
      [] name = "elastic_in_out" -> elastic_in_out_lower(p)
      [] name = "back_in_out" -> back_in_out_lower(p)
      [] name = "bounce_in_out" -> bounce_in_out_lower(p)

UpperArm(name, p) ==
    CASE name = "quadratic_in_out" -> quadratic_in_out_upper(p)
      [] name = "cubic_in_out" -> cubic_in_out_upper(p)
      [] name = "quartic_in_out" -> quartic_in_out_upper(p)
      [] name = "quintic_in_out" -> quintic_in_out_upper(p)
      [] name = "sine_in_out" -> sine_in_out_formula(p)
      [] name = "circular_in_out" -> circular_in_out_upper(p)
      [] name = "exponential_in_out" -> exponential_in_out_upper(p)
      [] name = "elastic_in_out" -> elastic_in_out_upper(p)
      [] name = "back_in_out" -> back_in_out_upper(p)
      [] name = "bounce_in_out" -> bounce_in_out_upper(p)

InNames ==
    {"quadratic_in", "cubic_in", "quartic_in", "quintic_in",
     "sine_in", "circular_in", "exponential_in", "elastic_in",
     "back_in", "bounce_in"}

InOutNames ==
    {"quadratic_in_out", "cubic_in_out", "quartic_in_out", "quintic_in_out",
     "sine_in_out", "circular_in_out", "exponential_in_out", "elastic_in_out",
     "back_in_out", "bounce_in_out"}

\* max(0, min(1, p))
Clamp01(p) ==
    LET lo == IF RLt(RInt(1), p) THEN RInt(1) ELSE p
    IN  IF RLt(lo, RInt(0)) THEN RInt(0) ELSE lo

Done(name) == pc = "done" /\ fn = name

DoneEase == pc = "done" /\ fn \in EaseNames

---------------------------------------------------------------------------
(* C1.  Each of the 30 easing functions gives, for an input p outside      *)
(* [0,1], the result it gives for p clamped to [0,1]: an input below 0     *)
(* gives the result of 0, an input above 1 the result of 1.                *)
C1_ClampedInputAgrees ==
    DoneEase =>
        /\ res = EaseByName(fn, Clamp01(args.p))
        /\ RLt(args.p, RInt(0)) => res = EaseByName(fn, RInt(0))
        /\ RGt(args.p, RInt(1)) => res = EaseByName(fn, RInt(1))

C1_Witness ==
    /\ Done("elastic_out")
    /\ RGt(args.p, RInt(1))
    /\ res = RInt(1)

---------------------------------------------------------------------------
(* C2.  calc is a total, exact dispatch: for each of the 30 tags and every *)
(* p, calc(tag, p) is the result of the easing function of the same name,  *)
(* and no other tag is mapped to the same function (any other tag gives a  *)
(* different result on some input).                                        *)
C2_CalcDispatchesByName ==
    Done("calc") =>
        /\ res = EaseByName(SameNamed(args.tag), args.p)
        /\ \A t \in EaseFunction \ {args.tag} :
              \E q \in EaseInputs : calc(t, q) # calc(args.tag, q)

C2_Witness ==
    /\ Done("calc")
    /\ args.tag = "EaseBounceInOut"
    /\ args.p = Rat(1, 4)
    /\ res = Rat(9, 64)

---------------------------------------------------------------------------
(* C3.  For each of the 10 families F, F_in(0) = 0 and F_in(1) = 1; the    *)
(* special-cased endpoints hold exactly: exponential_in(0) = 0 and         *)
(* exponential_out(1) = 1.                                                 *)
C3_InEndpoints ==
    /\ (pc = "done" /\ fn \in InNames /\ args.p = RInt(0)) => res = RInt(0)
    /\ (pc = "done" /\ fn \in InNames /\ args.p = RInt(1)) => res = RInt(1)
    /\ (Done("exponential_out") /\ args.p = RInt(1)) => res = RInt(1)

C3_Witness ==
    /\ Done("exponential_in")
    /\ args.p = RInt(0)
    /\ res = RInt(0)

---------------------------------------------------------------------------
(* C4.  exponential_in_out returns p when the clamped p is 0 or 1, so      *)
(* exponential_in_out(0) = 0 and exponential_in_out(1) = 1; for any other  *)
(* p it is 0.5*2^(20p-10) below 0.5 and -0.5*2^(-20p+10)+1 from 0.5 on.    *)
C4_ExponentialInOutEndpoints ==
    Done("exponential_in_out") =>
        LET p == Clamp01(args.p)
        IN  res = IF p = RInt(0) \/ p = RInt(1) THEN p
                  ELSE IF RLt(p, Half)
                  THEN Half ** Powf(RInt(2), (RInt(20) ** p) -- RInt(10))
                  ELSE RInt(1) -- (Half ** Powf(RInt(2), RInt(10) -- (RInt(20) ** p)))

---------------------------------------------------------------------------
(* C5.  The twelve polynomial easing functions compute their closed forms  *)
(* on the clamped p, each *_in_out with its lower formula strictly below   *)
(* 0.5 and its upper formula from 0.5 on; quadratic_in(0.5) = 0.25,        *)
(* quadratic_out(0.5) = 0.75 and cubic_in_out(0.25) = 0.0625.              *)
PolynomialNames ==
    {"quadratic_in", "quadratic_out", "quadratic_in_out",
     "cubic_in", "cubic_out", "cubic_in_out",
     "quartic_in", "quartic_out", "quartic_in_out",
     "quintic_in", "quintic_out", "quintic_in_out"}

\* The closed form of the spec for the polynomial function `name` at a
\* clamped p, written with powers.
ClosedForm(name, p) ==
    LET q == p -- RInt(1)
        low == RLt(p, Half)
    IN  CASE name = "quadratic_in" -> IPow(p, 2)
          [] name = "quadratic_out" -> RNeg(p ** (p -- RInt(2)))
          [] name = "quadratic_in_out" ->
                IF low THEN RInt(2) ** IPow(p, 2)
                ELSE ((RInt(-2) ** IPow(p, 2)) ++ (RInt(4) ** p)) -- RInt(1)
          [] name = "cubic_in" -> IPow(p, 3)
          [] name = "cubic_out" -> IPow(q, 3) ++ RInt(1)
          [] name = "cubic_in_out" ->
                IF low THEN RInt(4) ** IPow(p, 3)
                ELSE (Half ** IPow((RInt(2) ** p) -- RInt(2), 3)) ++ RInt(1)
          [] name = "quartic_in" -> IPow(p, 4)
          [] name = "quartic_out" -> (IPow(q, 3) ** (RInt(1) -- p)) ++ RInt(1)
          [] name = "quartic_in_out" ->
                IF low THEN RInt(8) ** IPow(p, 4)
                ELSE (RInt(-8) ** IPow(q, 4)) ++ RInt(1)
          [] name = "quintic_in" -> IPow(p, 5)
          [] name = "quintic_out" -> IPow(q, 5) ++ RInt(1)
          [] name = "quintic_in_out" ->
                IF low THEN RInt(16) ** IPow(p, 5)
                ELSE (Half ** IPow((RInt(2) ** p) -- RInt(2), 5)) ++ RInt(1)

C5_PolynomialClosedForms ==
    /\ (pc = "done" /\ fn \in PolynomialNames) =>
            res = ClosedForm(fn, Clamp01(args.p))
    /\ (Done("quadratic_in") /\ args.p = Half) => res = Rat(1, 4)
    /\ (Done("quadratic_out") /\ args.p = Half) => res = Rat(3, 4)
    /\ (Done("cubic_in_out") /\ args.p = Rat(1, 4)) => res = Rat(1, 16)

C5_Witness ==
    /\ Done("cubic_in_out")
    /\ args.p = Rat(1, 4)
    /\ res = Rat(1, 16)

---------------------------------------------------------------------------
(* C6.  bounce_in(p) = 1 - bounce_out(1 - p) for every p in [0,1], where   *)
(* bounce_out is the piecewise quadratic of four segments chosen by        *)
(* p < 4/11, p < 8/11, p < 9/10 and otherwise; bounce_in_out(p) is         *)
(* 0.5*bounce_in(2p) below 0.5 and 0.5*bounce_out(2p-1)+0.5 from 0.5 on.   *)
InUnit(p) == RLe(RInt(0), p) /\ RLe(p, RInt(1))

\* a*p^2 - b*p + c
Quadratic(a, b, c, p) == ((a ** IPow(p, 2)) -- (b ** p)) ++ c

BounceOutSegments(p) ==
    IF RLt(p, Rat(4, 11)) THEN Quadratic(Rat(121, 16), RInt(0), RInt(0), p)
    ELSE IF RLt(p, Rat(8, 11)) THEN Quadratic(Rat(363, 40), Rat(99, 10), Rat(17, 5), p)
    ELSE IF RLt(p, Rat(9, 10))
    THEN Quadratic(Rat(4356, 361), Rat(35442, 1805), Rat(16061, 1805), p)
    ELSE Quadratic(Rat(54, 5), Rat(513, 25), Rat(268, 25), p)

C6_BounceIdentities ==
    /\ (Done("bounce_out") /\ InUnit(args.p)) => res = BounceOutSegments(args.p)
    /\ (Done("bounce_in") /\ InUnit(args.p)) =>
            res = RInt(1) -- BounceOutSegments(RInt(1) -- args.p)
    /\ (Done("bounce_in_out") /\ InUnit(args.p)) =>
            res = IF RLt(args.p, Half)
                  THEN Half ** (RInt(1) -- BounceOutSegments(RInt(1) -- (RInt(2) ** args.p)))
                  ELSE (Half ** BounceOutSegments((RInt(2) ** args.p) -- RInt(1))) ++ Half

C6_Witness ==
    /\ Done("bounce_in")
    /\ args.p = Half
    /\ res = Rat(9, 32)

---------------------------------------------------------------------------
(* C7.  Each of the 10 *_in_out functions is continuous at the midpoint:   *)
(* the formula of the arm taken below 0.5 and the formula of the arm taken *)
(* from 0.5 on give the same value at p = 0.5, which is 0.5 and is what    *)
(* the function returns there.                                             *)
C7_MidpointContinuity ==
    (pc = "done" /\ fn \in InOutNames /\ args.p = Half) =>
        /\ LowerArm(fn, Half) = UpperArm(fn, Half)
        /\ UpperArm(fn, Half) = Half
        /\ res = Half

C7_Witness ==
    /\ Done("elastic_in_out")
    /\ args.p = Half
    /\ res = Half

---------------------------------------------------------------------------
(* C8.  For every signed and unsigned integer width and every x in 0..=10, *)
(* lerp(0, 10, x/10) = x and lerp(10, 0, (10-x)/10) = x; for the signed    *)
(* widths also lerp(-10, 0, (10+x)/10) = x and lerp(0, -10, -x/10) = x for *)
(* x in -10..0; and the same element-wise for the arrays of lengths 2 to 5 *)
(* whose elements all run from 0 to 10 or from 10 to 0.                    *)
C8_TestRoundTrip ==
    Done("lerp_test") => res = Ok(Fill(args.ty, args.x))

C8_Witness ==
    /\ Done("lerp_test")
    /\ args.ty = [elem |-> "u64", len |-> 5]
    /\ args.loop = 2
    /\ args.x = 3
    /\ res = Ok(<<3, 3, 3, 3, 3>>)

---------------------------------------------------------------------------
(* C9.  lerp(a, b, 0) = a and lerp(a, b, 1) = b exactly, for every pair    *)
(* a, b of every built-in Lerp type: floats, signed integers and unsigned  *)
(* integers of every width, with a <= b and with a > b.                    *)
C9_LerpEndpoints ==
    (Done("lerp") /\ args.ty.len = 0) =>
        /\ args.t = RInt(0) => res = Ok(args.a)
        /\ args.t = RInt(1) => res = Ok(args.b)

---------------------------------------------------------------------------
(* C10.  lerp(a, a, t) = a for every value a of every built-in Lerp type   *)
(* (floats, signed and unsigned integers, arrays of them) and every t,     *)
(* also outside [0,1].                                                     *)
C10_EqualEndpointsFixed ==
    (Done("lerp") /\ args.a = args.b) => res = Ok(args.a)

C10_Witness ==
    /\ Done("lerp")
    /\ args.ty = [elem |-> "i8", len |-> 3]
    /\ args.a = <<-10, 100, -10>>
    /\ args.b = args.a
    /\ args.t = RInt(2)
    /\ res = Ok(args.a)

---------------------------------------------------------------------------
(* C11.  Unsigned-integer lerp never underflows, for every unsigned width, *)
(* every a and b and every weight t, also t > 1 and t < 0: with a <= b the *)
(* difference b - a is not below 0, and with a > b the subtraction of the  *)
(* rounded scaled difference from a is not below 0, so that the call       *)
(* returns a value between 0 and a.                                        *)
C11_UnsignedNeverUnderflows ==
    (Done("lerp") /\ args.ty.len = 0 /\ args.ty.elem \in UnsignedTypes) =>
        IF args.a <= args.b THEN args.b - args.a >= 0
        ELSE /\ args.a - args.b >= 0
             /\ IsOk(res)
             /\ 0 <= res.val
             /\ res.val <= args.a

---------------------------------------------------------------------------
(* C12.  Signed-integer lerp is total: for every signed width, every a and *)
(* b of the type and every t in [0,1], the difference b - a and the sum    *)
(* a + round((b - a) * t) are in the range of the type, and the call       *)
(* returns a value and does not panic or wrap.                             *)
C12_SignedLerpTotal ==
    (Done("lerp") /\ args.ty.len = 0 /\ args.ty.elem \in SignedTypes
        /\ InUnit(args.t)) =>
        /\ InRange(args.ty.elem, args.b - args.a)
        /\ InRange(args.ty.elem, args.a + Round(RInt(args.b - args.a) ** args.t))
        /\ IsOk(res)

---------------------------------------------------------------------------
(* C13.  No easing function fails or returns a non-finite value for a      *)
(* finite input: every call returns a number; in circular_in, circular_out *)
(* and circular_in_out the argument of the square root of the arm that is  *)
(* executed is >= 0 at the clamped input; and every divisor of bounce_out  *)
(* is a constant other than 0.                                             *)
C13_EaseTotal ==
    DoneEase =>
        LET p == normalized(args.p)
            zero == RInt(0)
        IN  /\ ~IsNaN(res)
            /\ fn = "circular_in" => RLe(zero, circular_in_radicand(p))
            /\ fn = "circular_out" => RLe(zero, circular_out_radicand(p))
            /\ fn = "circular_in_out" =>
                    IF RLt(p, Half) THEN RLe(zero, circular_in_out_lower_radicand(p))
                    ELSE RLe(zero, circular_in_out_upper_radicand(p))
            /\ fn \in {"bounce_in", "bounce_out", "bounce_in_out"} =>
                    \A d \in bounce_out_divisors : ~IsNaN(d) /\ d # zero

C13_Witness ==
    /\ Done("circular_in_out")
    /\ args.p = Rat(1, 4)
    /\ RLt(circular_in_out_upper_radicand(args.p), RInt(0))
    /\ circular_in_out_lower_radicand(args.p) = Rat(3, 4)
    /\ ~IsNaN(res)

---------------------------------------------------------------------------
\* add(sub(a, b), b) for the unsigned type e: the outcomes of the sum, for
\* the difference d that sub returned.
AddBack(e, d, b) == add_scalar(e, d, b)

(* C14, as stated.  For every unsigned width and every a, b, sub(a, b)     *)
(* returns |a - b| without underflow, so sub(a, b) = sub(b, a);            *)
(* add(sub(a, b), b) = a when a >= b, and whenever a < b the sum is not a. *)
C14_SubNeverInvertibleBelow ==
    (Done("sub") /\ args.ty.len = 0 /\ args.ty.elem \in UnsignedTypes) =>
        LET e == args.ty.elem
            a == args.self
            b == args.other
        IN  /\ res = Ok(Abs(a - b))
            /\ sub_scalar(e, b, a) = {res}
            /\ a >= b => AddBack(e, res.val, b) = {Ok(a)}
            /\ a < b => Ok(a) \notin AddBack(e, res.val, b)

(* C14, amended.  For every unsigned width and every a, b, sub(a, b)       *)
(* returns |a - b| without underflow, so sub(a, b) = sub(b, a);            *)
(* add(sub(a, b), b) = a when a >= b; when a < b the sum is 2b - a, which  *)
(* is not a, except where b - a = 2^(w-1): there the sum overflows, and    *)
(* the build that wraps returns a.                                         *)
C14_SubAbsoluteDifference ==
    (Done("sub") /\ args.ty.len = 0 /\ args.ty.elem \in UnsignedTypes) =>
        LET e == args.ty.elem
            a == args.self
            b == args.other
            half_range == Narrow(e) /\ b - a = Pow2(Bits(e) - 1)
        IN  /\ res = Ok(Abs(a - b))
            /\ sub_scalar(e, b, a) = {res}
            /\ a >= b => AddBack(e, res.val, b) = {Ok(a)}
            /\ (a < b /\ ~half_range) => Ok(a) \notin AddBack(e, res.val, b)
            /\ (a < b /\ half_range) => AddBack(e, res.val, b) = {Panic, Ok(a)}

C14_Witness ==
    /\ Done("sub")
    /\ args.ty = [elem |-> "u8", len |-> 0]
    /\ args.self = 0
    /\ args.other = 128
    /\ res = Ok(128)
    /\ AddBack("u8", 128, 128) = {Panic, Ok(0)}

---------------------------------------------------------------------------
(* C15.  quad_bez(x0, x0, x0, t) = x0 for every value x0 of every built-in *)
(* Lerp type (floats, integers, arrays of them) and every weight t, also   *)
(* outside [0,1]: three equal control points give a constant curve.        *)
C15_QuadBezConstant ==
    (Done("quad_bez") /\ args.x1 = args.x0 /\ args.x2 = args.x0) =>
        res = Ok(args.x0)

C15_Witness ==
    /\ Done("quad_bez")
    /\ args.ty = [elem |-> "f32", len |-> 0]
    /\ args.x0 = RInt(33554432)
    /\ args.x1 = args.x0
    /\ args.x2 = args.x0
    /\ args.t = RInt(2)
    /\ res = Ok(RInt(33554432))

---------------------------------------------------------------------------
(* C16.  The Bezier curves pass through their end control points, for all  *)
(* control points of a built-in Lerp type: quad_bez(x0, x1, x2, 0) = x0,   *)
(* quad_bez(x0, x1, x2, 1) = x2, cub_bez(x0, x1, x2, x3, 0) = x0 and       *)
(* cub_bez(x0, x1, x2, x3, 1) = x3; so cub_bez(x0, x1, x2, x2, t) is x0    *)
(* at t = 0 and x2 at t = 1.                                               *)
C16_BezierEndpoints ==
    /\ Done("quad_bez") =>
            /\ args.t = RInt(0) => res = Ok(args.x0)
            /\ args.t = RInt(1) => res = Ok(args.x2)
    /\ Done("cub_bez") =>
            /\ args.t = RInt(0) => res = Ok(args.x0)
            /\ args.t = RInt(1) => res = Ok(args.x3)

---------------------------------------------------------------------------
\* a.add(&b.sub(a).scale(t)): the lerp that the Spatial implementation of
\* the scalar type e gives.
SpatialLerp(e, a, b, t) ==
    Then(sub_scalar(e, b, a), LAMBDA d :
        Then(scale_scalar(e, d, t), LAMBDA s : add_scalar(e, a, s)))

(* C17, as stated.  For every built-in scalar type, every a, b and every   *)
(* t in [0,1], a.add(&b.sub(a).scale(t)) of Spatial has the outcomes of    *)
(* a.lerp(b, t) of Lerp, also for unsigned a > b.                          *)
C17_LerpFromSpatial ==
    (Done("lerp") /\ args.ty.len = 0 /\ InUnit(args.t)) =>
        /\ res \in SpatialLerp(args.ty.elem, args.a, args.b, args.t)
        /\ SpatialLerp(args.ty.elem, args.a, args.b, args.t)
                = lerp(args.ty, args.a, args.b, args.t)

(* C17, amended.  For the floats, the signed integers, and the unsigned    *)
(* integers with a <= b, every t in [0,1]: a.add(&b.sub(a).scale(t)) has   *)
(* the outcomes of a.lerp(b, t).  For unsigned a > b it has the outcomes   *)
(* of a + round((a - b) * t), where lerp computes a - round((a - b) * t):  *)
(* it does not return what lerp returns, unless the rounded product is 0,  *)
(* or is 2^(w-1) and the sum wraps.                                        *)
C17_LerpFromSpatialUpward ==
    (Done("lerp") /\ args.ty.len = 0 /\ InUnit(args.t)) =>
        LET e == args.ty.elem
            a == args.a
            b == args.b
            derived == SpatialLerp(e, a, b, args.t)
            c == Round(RInt(a - b) ** args.t)
            half_range == Narrow(e) /\ c = Pow2(Bits(e) - 1)
        IN  IF e \in UnsignedTypes /\ a > b
            THEN /\ derived = Then(ScaledRound(e, a - b, args.t),
                                   LAMBDA k : Checked(e, a + k))
                 /\ (c # 0 /\ ~half_range) => res \notin derived
                 /\ c = 0 => derived = {Ok(a)} /\ res = Ok(a)
            ELSE /\ res \in derived
                 /\ derived = lerp(args.ty, a, b, args.t)

C17_Witness ==
    /\ Done("lerp")
    /\ args.ty = [elem |-> "u8", len |-> 0]
    /\ args.a = 10
    /\ args.b = 0
    /\ args.t = Half
    /\ res = Ok(5)
    /\ SpatialLerp("u8", 10, 0, Half) = {Ok(15)}

---------------------------------------------------------------------------
\* The quadratic of the k-th segment of bounce_out, as a formula of p.
BounceSegment(k, p) ==
    CASE k = 1 -> Quadratic(Rat(121, 16), RInt(0), RInt(0), p)
      [] k = 2 -> Quadratic(Rat(363, 40), Rat(99, 10), Rat(17, 5), p)
      [] k = 3 -> Quadratic(Rat(4356, 361), Rat(35442, 1805), Rat(16061, 1805), p)
      [] k = 4 -> Quadratic(Rat(54, 5), Rat(513, 25), Rat(268, 25), p)

\* The segment that starts at a breakpoint of bounce_out.
SegmentFrom(p) ==
    CASE p = Rat(4, 11) -> 2
      [] p = Rat(8, 11) -> 3
      [] p = Rat(9, 10) -> 4

(* C18.  bounce_out is continuous at its breakpoints 4/11, 8/11 and 9/10   *)
(* and hits its endpoints: at each breakpoint the quadratic of the segment *)
(* below and the quadratic of the segment from it on both give 1, and      *)
(* bounce_out returns the value of the segment from it on; bounce_out(0)   *)
(* is 0 and bounce_out(1) is 1.                                            *)
C18_BounceOutContinuous ==
    Done("bounce_out") =>
        /\ args.p \in {Rat(4, 11), Rat(8, 11), Rat(9, 10)} =>
                /\ BounceSegment(SegmentFrom(args.p) - 1, args.p) = RInt(1)
                /\ BounceSegment(SegmentFrom(args.p), args.p) = RInt(1)
                /\ res = BounceSegment(SegmentFrom(args.p), args.p)
        /\ args.p = RInt(0) => res = RInt(0)
        /\ args.p = RInt(1) => res = RInt(1)

C18_Witness ==
    /\ Done("bounce_out")
    /\ args.p = Rat(8, 11)
    /\ res = RInt(1)

---------------------------------------------------------------------------
\* The families whose three phases are built from one curve, and the
\* names of the phases of a family.
MirrorFamilies == {"quadratic", "cubic", "quartic", "quintic", "bounce"}

Phase(family, phase) ==
    CASE family = "quadratic" ->
            [in |-> "quadratic_in", out |-> "quadratic_out",
             in_out |-> "quadratic_in_out"][phase]
      [] family = "cubic" ->
            [in |-> "cubic_in", out |-> "cubic_out", in_out |-> "cubic_in_out"][phase]
      [] family = "quartic" ->
            [in |-> "quartic_in", out |-> "quartic_out",
             in_out |-> "quartic_in_out"][phase]
      [] family = "quintic" ->
            [in |-> "quintic_in", out |-> "quintic_out",
             in_out |-> "quintic_in_out"][phase]
      [] family = "bounce" ->
            [in |-> "bounce_in", out |-> "bounce_out", in_out |-> "bounce_in_out"][phase]

(* C19.  In the quadratic, cubic, quartic, quintic and bounce families,    *)
(* for every p in [0,1]: F_out(p) = 1 - F_in(1 - p); F_in_out(p) is        *)
(* 0.5 * F_in(2p) for p < 0.5 and 0.5 * F_out(2p - 1) + 0.5 for p >= 0.5.  *)
C19_MirrorPhases ==
    \A family \in MirrorFamilies :
        LET F_in(q) == EaseByName(Phase(family, "in"), q)
            F_out(q) == EaseByName(Phase(family, "out"), q)
            one == RInt(1)
            two == RInt(2)
        IN  /\ (Done(Phase(family, "out")) /\ InUnit(args.p)) =>
                    res = one -- F_in(one -- args.p)
            /\ (Done(Phase(family, "in_out")) /\ InUnit(args.p)) =>
                    res = IF RLt(args.p, Half) THEN Half ** F_in(two ** args.p)
                          ELSE (Half ** F_out((two ** args.p) -- one)) ++ Half

C19_Witness ==
    /\ Done("quintic_in_out")
    /\ args.p = Rat(3, 4)
    /\ res = (Half ** quintic_out(Half)) ++ Half
    /\ res = Rat(63, 64)

---------------------------------------------------------------------------
\* The difference of a and b is a value of the integer type e: b - a for a
\* signed type, |b - a| for an unsigned one.
DifferenceFits(e, a, b) ==
    IF e \in SignedTypes THEN InRange(e, b - a) ELSE InRange(e, Abs(b - a))

(* C20.  Integer lerp stays between its endpoints: for every signed and    *)
(* unsigned width, every a and b whose difference is a value of the type   *)
(* and every t in [0,1], the call returns a value with                     *)
(* min(a, b) <= lerp(a, b, t) <= max(a, b), and that value is a plus       *)
(* (b - a) * t rounded to the nearest integer, halves away from zero.      *)
C20_IntegerLerpWithin ==
    (Done("lerp") /\ args.ty.len = 0 /\ args.ty.elem \in IntTypes
        /\ InUnit(args.t) /\ DifferenceFits(args.ty.elem, args.a, args.b)) =>
        LET a == args.a
            b == args.b
            min == IF a <= b THEN a ELSE b
            max == IF a <= b THEN b ELSE a
        IN  /\ IsOk(res)
            /\ min <= res.val
            /\ res.val <= max
            /\ res.val = a + Round(RInt(b - a) ** args.t)

=============================================================================
